---- MODULE Spec2Model ----
(***************************************************************************)
(* Model of the cognitive-orchestration workflow engine:                   *)
(*   src/src/orchestration/{state,nodes,graph}.py                          *)
(*   src/src/utils/schema_validator.py                                     *)
(* A run is PLAN -> DISPATCH -> VALIDATE -> (SYNTHESIZE | end).            *)
(***************************************************************************)
EXTENDS Integers, Sequences, FiniteSets, TLC

(***************************************************************************)
(* Bounds of the model (not program constants).                            *)
(***************************************************************************)
\* largest iteration value a caller puts into a fresh AgentState
MaxIteration == 3
\* longest plan handed directly to a dispatcher
MaxPlanLen == 3

(***************************************************************************)
(* Program constants.                                                      *)
(***************************************************************************)
\* nodes.py:141  max_retries = 3
max_retries == 3
\* graph.py:22   if state.iteration > 2
IterationCeiling == 2
\* schema_validator.py:40-41  minItems / maxItems
minItems == 1
maxItems == 10

(***************************************************************************)
(* Tool registry, nodes.py:95-100.  The value says whether the registered  *)
(* callable is a plain function or an `async def` (returns a coroutine).   *)
(***************************************************************************)
TOOL_MAP ==
    [ vector_search       |-> "sync",
      graph_search        |-> "sync",
      vector_search_async |-> "async",
      graph_search_async  |-> "async" ]

ToolIds == DOMAIN TOOL_MAP

\* tool_name.endswith("_async"), nodes.py:258
endswith_async(tool_name) ==
    tool_name \in {"vector_search_async", "graph_search_async"}

\* an identifier that is not a key of TOOL_MAP
UnknownTool == "web_search"

(***************************************************************************)
(* Text of a model completion: a sequence of lexical tokens.               *)
(***************************************************************************)
P(s) == [k |-> "punct", s |-> s]
S(s) == [k |-> "str",   s |-> s]
N(s) == [k |-> "num",   s |-> s]
W(s) == [k |-> "word",  s |-> s]
WS   == [k |-> "ws",    s |-> " "]
Fence(s) == [k |-> "fence", s |-> s]

(***************************************************************************)
(* JSON values produced by json.loads.                                     *)
(***************************************************************************)
JStr(s)     == [t |-> "str",  s |-> s,  items |-> <<>>, keys |-> <<>>]
JNum(s)     == [t |-> "num",  s |-> s,  items |-> <<>>, keys |-> <<>>]
JLit(s)     == [t |-> "lit",  s |-> s,  items |-> <<>>, keys |-> <<>>]
JArr(xs)    == [t |-> "arr",  s |-> "", items |-> xs,   keys |-> <<>>]
JObj(ks,xs) == [t |-> "obj",  s |-> "", items |-> xs,   keys |-> ks]

ParseOk(v, n) == [ok |-> TRUE,  val |-> v,        next |-> n]
ParseFail     == [ok |-> FALSE, val |-> JLit(""), next |-> 0]

RECURSIVE SkipWs(_, _)
SkipWs(toks, i) ==
    IF i <= Len(toks) /\ toks[i].k = "ws" THEN SkipWs(toks, i + 1) ELSE i

TokIs(toks, i, tok) == i <= Len(toks) /\ toks[i] = tok

RECURSIVE ParseValue(_, _)
RECURSIVE ParseElems(_, _, _)
RECURSIVE ParseMembers(_, _, _, _)

\* json decoder: one value starting at token i
ParseValue(toks, i) ==
    LET j == SkipWs(toks, i) IN
    IF j > Len(toks) THEN ParseFail
    ELSE LET tk == toks[j] IN
         CASE tk.k = "str" -> ParseOk(JStr(tk.s), j + 1)
           [] tk.k = "num" -> ParseOk(JNum(tk.s), j + 1)
           [] tk.k = "word" /\ tk.s \in {"true", "false", "null"} ->
                ParseOk(JLit(tk.s), j + 1)
           [] tk = P("[") ->
                LET e == SkipWs(toks, j + 1) IN
                IF TokIs(toks, e, P("]")) THEN ParseOk(JArr(<<>>), e + 1)
                ELSE ParseElems(toks, e, <<>>)
           [] tk = P("{") ->
                LET e == SkipWs(toks, j + 1) IN
                IF TokIs(toks, e, P("}")) THEN ParseOk(JObj(<<>>, <<>>), e + 1)
                ELSE ParseMembers(toks, e, <<>>, <<>>)
           [] OTHER -> ParseFail

\* elements of an array after "[" or ","
ParseElems(toks, i, acc) ==
    LET r == ParseValue(toks, i) IN
    IF ~r.ok THEN ParseFail
    ELSE LET e == SkipWs(toks, r.next) IN
         IF TokIs(toks, e, P(",")) THEN ParseElems(toks, e + 1, Append(acc, r.val))
         ELSE IF TokIs(toks, e, P("]")) THEN ParseOk(JArr(Append(acc, r.val)), e + 1)
         ELSE ParseFail

\* members of an object after "{" or ","
ParseMembers(toks, i, ks, xs) ==
    LET j == SkipWs(toks, i) IN
    IF ~(j <= Len(toks) /\ toks[j].k = "str") THEN ParseFail
    ELSE LET c == SkipWs(toks, j + 1) IN
         IF ~TokIs(toks, c, P(":")) THEN ParseFail
         ELSE LET r == ParseValue(toks, c + 1) IN
              IF ~r.ok THEN ParseFail
              ELSE LET e   == SkipWs(toks, r.next)
                       ks2 == Append(ks, toks[j].s)
                       xs2 == Append(xs, r.val)
                   IN IF TokIs(toks, e, P(",")) THEN ParseMembers(toks, e + 1, ks2, xs2)
                      ELSE IF TokIs(toks, e, P("}")) THEN ParseOk(JObj(ks2, xs2), e + 1)
                      ELSE ParseFail

\* json_loads that stops after the first value and ignores what follows
json_loads_prefix(toks) ==
    ParseValue(toks, 1)

\* json.loads(json_string): exactly one value, surrounded by whitespace only
json_loads(toks) ==
    LET r == ParseValue(toks, 1) IN
    IF r.ok /\ SkipWs(toks, r.next) = Len(toks) + 1 THEN r ELSE ParseFail

\* dict lookup: the last occurrence of a repeated key wins
RECURSIVE LastIndex(_, _, _)
LastIndex(ks, key, i) ==
    IF i = 0 THEN 0
    ELSE IF ks[i] = key THEN i ELSE LastIndex(ks, key, i - 1)

DictKeys(obj) == {obj.keys[i] : i \in 1..Len(obj.keys)}
DictGet(obj, key) == obj.items[LastIndex(obj.keys, key, Len(obj.keys))]

(***************************************************************************)
(* SafeJSONParser, schema_validator.py:22-130.                             *)
(***************************************************************************)
\* PLANNER_RESPONSE_SCHEMA "enum"
SchemaEnum ==
    {"vector_search", "graph_search", "vector_search_async", "graph_search_async"}

Decoded(plan) == [ok |-> TRUE,  plan |-> plan]
\* SchemaValidationError
SchemaValidationError == [ok |-> FALSE, plan |-> <<>>]

\* SchemaValid without the "maxItems" keyword
SchemaValid_no_maxItems(data) ==
    /\ data.t = "obj"
    /\ "plan" \in DictKeys(data)
    /\ DictKeys(data) \subseteq {"plan"}
    /\ LET pl == DictGet(data, "plan") IN
         /\ pl.t = "arr"
         /\ Len(pl.items) >= minItems
         /\ \A i \in 1..Len(pl.items) :
               /\ pl.items[i].t = "str"
               /\ pl.items[i].s \in SchemaEnum

\* jsonschema.validate(data, cls.PLANNER_RESPONSE_SCHEMA)
SchemaValid(data) ==
    /\ data.t = "obj"
    /\ "plan" \in DictKeys(data)
    /\ DictKeys(data) \subseteq {"plan"}
    /\ LET pl == DictGet(data, "plan") IN
         /\ pl.t = "arr"
         /\ Len(pl.items) >= minItems
         /\ Len(pl.items) <= maxItems
         /\ \A i \in 1..Len(pl.items) :
               /\ pl.items[i].t = "str"
               /\ pl.items[i].s \in SchemaEnum

\* validate_planner_response that returns the plan back to front
validate_planner_response_reversed(data) ==
    IF ~SchemaValid(data) THEN SchemaValidationError
    ELSE LET pl   == DictGet(data, "plan")
             plan == [i \in 1..Len(pl.items) |-> pl.items[Len(pl.items) + 1 - i].s]
             valid_tools == {"vector_search", "graph_search",
                             "vector_search_async", "graph_search_async"}
             invalid_tools == {plan[i] : i \in 1..Len(plan)} \ valid_tools
         IN IF plan = <<>> THEN SchemaValidationError
            ELSE IF invalid_tools # {} THEN SchemaValidationError
            ELSE Decoded(plan)

validate_planner_response(data) ==
    IF ~SchemaValid(data) THEN SchemaValidationError
    ELSE LET pl   == DictGet(data, "plan")
             plan == [i \in 1..Len(pl.items) |-> pl.items[i].s]
             valid_tools == {"vector_search", "graph_search",
                             "vector_search_async", "graph_search_async"}
             invalid_tools == {plan[i] : i \in 1..Len(plan)} \ valid_tools
         IN IF plan = <<>> THEN SchemaValidationError
            ELSE IF invalid_tools # {} THEN SchemaValidationError
            ELSE Decoded(plan)

\* safe_parse_json(json_string, "planner")
safe_parse_json(json_string) ==
    LET r == json_loads(json_string) IN
    IF ~r.ok THEN SchemaValidationError
    ELSE validate_planner_response(r.val)

(***************************************************************************)
(* json.dumps({"plan": plan}): the serialization of a plan document.       *)
(***************************************************************************)
RECURSIVE DumpItems(_, _)
DumpItems(xs, i) ==
    IF i > Len(xs) THEN <<>>
    ELSE (IF i > 1 THEN <<P(","), WS>> ELSE <<>>) \o <<S(xs[i])>> \o DumpItems(xs, i + 1)

json_dumps_plan(plan) ==
    <<P("{"), S("plan"), P(":"), WS, P("[")>> \o DumpItems(plan, 1) \o <<P("]"), P("}")>>

(***************************************************************************)
(* Strings built by the nodes.                                             *)
(***************************************************************************)
\* the string a tool returns
Out(tool_name) == [kind |-> "output", id |-> tool_name, msg |-> ""]
\* f"Error executing {tool_name}: {str(e)}", nodes.py:236,240,272,293
ErrorExecuting(tool_name, m) == [kind |-> "error", id |-> tool_name, msg |-> m]

\* message of the exception a failing tool raises
ToolErrorMsg == "boom"
\* message of the RuntimeError asyncio.run raises inside a running loop
AsyncioRunMsg == "asyncio.run() cannot be called from a running event loop"

\* progress events handed to state.ui
Ev(name, tool_name) == [e |-> name, id |-> tool_name]

\* `if state.ui: state.ui(event)`
Emit(evs, has_ui, ev) == IF has_ui THEN Append(evs, ev) ELSE evs

(***************************************************************************)
(* Environment: what the collaborators do when called.                     *)
(***************************************************************************)
\* a tool returns, raises a RuntimeError, or raises another Exception
ToolOutcomes == {"returns", "raises", "raises_RuntimeError"}

\* the class of the exception matters only for a coroutine: a plain
\* function raises inside the one `except Exception` of nodes.py:238,270
ToolOutcomeAssignments ==
    {f \in [ToolIds -> ToolOutcomes] :
        \A t \in ToolIds : TOOL_MAP[t] = "sync" => f[t] # "raises_RuntimeError"}

\* the completions the model client may produce in PLAN
SamplePlans ==
    { <<"vector_search">>,
      <<"graph_search">>,
      <<"vector_search", "graph_search">>,
      <<"vector_search_async", "vector_search">>,
      <<"graph_search", "vector_search_async", "graph_search_async">>,
      <<"vector_search", "vector_search", "vector_search", "vector_search",
        "vector_search", "graph_search", "graph_search", "graph_search",
        "graph_search", "graph_search_async">> }

ElevenTools == [i \in 1..(maxItems + 1) |-> "vector_search"]

MalformedCompletions ==
    { <<>>,
      <<W("Sure"), W("here"), W("is"), W("the"), W("plan")>>,
      <<Fence("open"), WS>> \o json_dumps_plan(<<"vector_search">>) \o <<WS, Fence("close")>>,
      json_dumps_plan(<<"vector_search">>) \o <<WS, W("Done")>>,
      <<P("{"), S("plan"), P(":"), P("["), S("vector_search"), P(","), P("]"), P("}")>>,
      <<P("{"), S("plan"), P(":"), P("["), S("vector_search")>> }

NonConformingCompletions ==
    { json_dumps_plan(<<>>),
      json_dumps_plan(ElevenTools),
      json_dumps_plan(<<"vector_search", UnknownTool>>),
      <<P("["), S("vector_search"), P("]")>>,
      <<P("{"), S("steps"), P(":"), P("["), S("vector_search"), P("]"), P("}")>>,
      <<P("{"), S("plan"), P(":"), WS, S("vector_search"), P("}")>>,
      <<P("{"), S("plan"), P(":"), P("["), N("1"), P("]"), P("}")>>,
      <<P("{"), S("plan"), P(":"), P("["), S("graph_search"), P("]"), P(","),
        S("note"), P(":"), W("null"), P("}")>> }

Completions ==
    {json_dumps_plan(p) : p \in SamplePlans}
        \cup MalformedCompletions \cup NonConformingCompletions

\* what _get_ollama_client().generate(...) does in PLAN: raises, answers
\* without a 'response' key, or answers with a completion text
GenerateOutcomes ==
    {[kind |-> "exception", text |-> <<>>], [kind |-> "no_response_key", text |-> <<>>]}
        \cup {[kind |-> "text", text |-> c] : c \in Completions}

\* what generate does in SYNTHESIZE
SynthOutcomes == {"text", "no_response_key", "exception"}

Queries == {"", "Capital of France?"}

(***************************************************************************)
(* State.                                                                  *)
(***************************************************************************)
VARIABLES
    entry,          \* what the caller invoked: GRAPH or one of the executors
    pc,             \* node about to run; "__end__" once the run returned,
                    \* "raised" once an exception left it
    query,          \* AgentState.query
    plan,           \* AgentState.plan
    tool_output,    \* AgentState.tool_output
    response,       \* AgentState.response
    iteration,      \* AgentState.iteration
    ui,             \* AgentState.ui is set
    tool_outcome,   \* environment: outcome of each registered tool
    loop_running,   \* an event loop runs in the calling thread
    attempt,        \* planner_node: loop variable
    phase,          \* executor: which loop is running
    idx,            \* executor: position in the running loop
    tool_outputs,   \* executor: local list
    events,         \* events received by state.ui, in order
    calls,          \* tools whose body was executed, in order
    llm_calls,      \* generate() calls made in PLAN and in SYNTHESIZE, how
                    \* many of them raised, and safe_parse_json calls
    decoded_at,     \* 1-based attempt whose completion decoded, 0 if none
    iteration0,     \* iteration at entry
    trace,          \* dispatch: ui events and tool-body begin/end, in order
    visits,         \* how many times each node was entered
    awaiting,       \* tool_executor_node_async: position of the coroutine
                    \* the `await` is running, 0 when none
    _metrics,       \* metrics.py: the store
    _metrics_lock,  \* metrics.py: 0 when free, else the thread holding it
    threads,        \* metrics.py callers: operation, position, local value
    reader,         \* a get_metrics() call: position and what it has built
    completed,      \* stores as they were when the get_metrics() call began
                    \* and each time a mutation completed during it
    wrap_depth,     \* retry.py: how many times retry was applied to func
    call_args,      \* retry.py: arguments of the outer call
    attempt_number, \* tenacity: attempts made so far, per wrapper
    invocations,    \* calls of func: arguments and outcome, in order
    slept,          \* tenacity: waits slept, in order (half seconds)
    retry_pc,       \* where the outer call is
    retry_result,   \* what the outer call returned or raised
    decode_input,   \* safe_parse_json: how the text was made
    json_string,    \* safe_parse_json: the text
    decoded,        \* safe_parse_json: its outcome
    worker,         \* ThreadPoolExecutor worker running asyncio.run(output)
    loop_ticks,     \* steps made by another task of the caller's event loop
    clients,        \* nodes.py module globals OLLAMA_CLIENT, neo4j_agent,
                    \* chromadb_agent: 0 for None, else the instance
    constructed,    \* constructor calls made, per getter
    callers         \* threads calling a lazy getter: position and result

vars == <<entry, pc, query, plan, tool_output, response, iteration, ui,
          tool_outcome, loop_running, attempt, phase, idx, tool_outputs,
          events, calls, llm_calls, decoded_at, iteration0, trace, awaiting,
          _metrics, _metrics_lock, threads, reader, completed,
          wrap_depth, call_args, attempt_number, invocations, slept, retry_pc,
          retry_result, decode_input, json_string, decoded, visits,
          worker, loop_ticks, clients, constructed, callers>>

engine_vars == <<entry, pc, query, plan, tool_output, response, iteration, ui,
                 tool_outcome, loop_running, attempt, phase, idx, tool_outputs,
                 events, calls, llm_calls, decoded_at, iteration0, trace,
                 awaiting, visits>>
metrics_vars == <<_metrics, _metrics_lock, threads, reader, completed>>
retry_vars == <<wrap_depth, call_args, attempt_number, invocations, slept,
                retry_pc, retry_result>>
decode_vars == <<decode_input, json_string, decoded>>
bridge_vars == <<worker, loop_ticks>>
getter_vars == <<clients, constructed, callers>>
other_vars == <<metrics_vars, retry_vars, decode_vars, bridge_vars, getter_vars>>
non_metrics_vars == <<engine_vars, retry_vars, decode_vars, bridge_vars, getter_vars>>
non_retry_vars == <<engine_vars, metrics_vars, decode_vars, bridge_vars, getter_vars>>
non_decode_vars == <<engine_vars, metrics_vars, retry_vars, bridge_vars, getter_vars>>
non_getter_vars == <<engine_vars, metrics_vars, retry_vars, decode_vars, bridge_vars>>

env_vars   == <<entry, query, ui, tool_outcome, loop_running, iteration0>>
exec_vars  == <<phase, idx, tool_outputs>>
trace_vars == <<trace, awaiting>>

\* AgentState(query=..., iteration=...), state.py:8-23
AgentState(q, it) ==
    /\ query = q
    /\ plan = <<>>
    /\ tool_output = <<>>
    /\ response = ""
    /\ iteration = it
    /\ iteration0 = it

\* the store after reset_metrics(), metrics.py:161-174, for the names the
\* callers use: counters['x'], error_counts['e'], timers['t'] and
\* system_health['failed_requests']
reset_metrics ==
    [counters |-> 0, error_counts |-> 0, failed_requests |-> 0, timers |-> <<>>]

\* no get_metrics() call made yet
reader_idle ==
    [pc |-> "idle", joined |-> FALSE,
     counters |-> 0, error_counts |-> 0, failed_requests |-> 0,
     timer_count |-> 0, timer_sum |-> 0]

\* nobody uses the metrics store
MetricsIdle ==
    /\ _metrics = reset_metrics
    /\ _metrics_lock = 0
    /\ threads = <<>>
    /\ reader = reader_idle
    /\ completed = {}

\* no retry-wrapped call is made
RetryIdle ==
    /\ wrap_depth = 0
    /\ call_args = ""
    /\ attempt_number = <<>>
    /\ invocations = <<>>
    /\ slept = <<>>
    /\ retry_pc = "idle"
    /\ retry_result = [kind |-> "none"]

\* the decoder is not called on its own
DecodeIdle ==
    /\ decode_input = [form |-> "none", plan |-> <<>>]
    /\ json_string = <<>>
    /\ decoded = [kind |-> "none"]

\* no worker thread runs and no other task is watched
BridgeIdle ==
    /\ worker = "idle"
    /\ loop_ticks = 0

\* the lazy getters of nodes.py:25-46; health.py:25-38 repeats the pattern
\* for its own two globals
Getters == {"_get_ollama_client", "_get_neo4j_agent", "_get_chromadb_agent"}

\* the module globals of nodes.py:19-22 after import, nobody calling
GettersIdle ==
    /\ clients = [g \in Getters |-> 0]
    /\ constructed = [g \in Getters |-> 0]
    /\ callers = <<>>

\* nobody uses the metrics store, the retry policy, the decoder on its
\* own, the bridge or the lazy getters
OthersIdle ==
    /\ MetricsIdle
    /\ RetryIdle
    /\ DecodeIdle
    /\ BridgeIdle
    /\ GettersIdle

Locals ==
    /\ attempt = 0
    /\ phase = "idle"
    /\ idx = 1
    /\ tool_outputs = <<>>
    /\ events = <<>>
    /\ calls = <<>>
    /\ llm_calls = [plan |-> 0, synth |-> 0, plan_errors |-> 0, synth_errors |-> 0,
                    parses |-> 0]
    /\ decoded_at = 0
    /\ trace = <<>>
    /\ awaiting = 0
    /\ visits = [n \in {"planner", "executor", "validator", "synthesizer"} |-> 0]

\* GRAPH.invoke(AgentState(...)), main.py:85-86, graph.py:36
Init ==
    /\ entry = "GRAPH"
    /\ pc = "planner"
    /\ \E q \in Queries, it \in 0..MaxIteration : AgentState(q, it)
    /\ ui \in BOOLEAN
    /\ tool_outcome \in ToolOutcomeAssignments
    /\ loop_running \in BOOLEAN
    /\ Locals
    /\ OthersIdle

\* no workflow runs
EngineIdle ==
    /\ entry = "none"
    /\ pc = "idle"
    /\ AgentState("", 0)
    /\ ui = FALSE
    /\ tool_outcome = [t \in ToolIds |-> "returns"]
    /\ loop_running = FALSE
    /\ Locals

(***************************************************************************)
(* Graph wiring, graph.py:20-48.                                           *)
(***************************************************************************)
\* _edge_selector with the comparison off by one
_edge_selector_ge(it) == IF it >= IterationCeiling THEN "finish" ELSE "synth"

\* _edge_selector(state), graph.py:20-26
_edge_selector(it) == IF it > IterationCeiling THEN "finish" ELSE "synth"

\* ConditionalEdges whose "finish" key leads back to the planner
ConditionalEdges_replan(key) ==
    CASE key = "synth"  -> "synthesizer"
      [] key = "finish" -> "planner"

\* add_conditional_edges("validator", _edge_selector, {...}), graph.py:40-44
ConditionalEdges(key) ==
    CASE key = "synth"  -> "synthesizer"
      [] key = "finish" -> "__end__"

\* Edge without add_edge("synthesizer", "__end__"): the node leads nowhere
Edge_no_synth_end(node) ==
    CASE node = "planner"     -> "executor"
      [] node = "executor"    -> "validator"
      [] node = "synthesizer" -> "nowhere"

\* add_edge(...), graph.py:37,38,45
Edge(node) ==
    CASE node = "planner"     -> "executor"
      [] node = "executor"    -> "validator"
      [] node = "synthesizer" -> "__end__"

\* where control goes when an executor returns
AfterExecutor == IF entry = "GRAPH" THEN Edge("executor") ELSE "__end__"

(***************************************************************************)
(* PLAN: planner_node, nodes.py:107-197.  One action per loop iteration.   *)
(***************************************************************************)
\* the plan returned when every attempt failed, nodes.py:180,191,197
FallbackPlan == <<"vector_search">>

\* response.get('response', ''), nodes.py:151
raw_response(o) == IF o.kind = "text" THEN o.text ELSE <<>>

\* planner_attempt that re-raises once the attempts are used up
planner_attempt_reraise(att, o) ==
    LET failed(parsed) ==
            [done |-> FALSE, plan |-> <<>>, decoded |-> FALSE,
             raised |-> (att = max_retries - 1), parsed |-> parsed]
    IN IF o.kind = "exception" THEN failed(FALSE)
       ELSE LET plan_data == safe_parse_json(raw_response(o)) IN
            IF plan_data.ok
            THEN [done |-> TRUE, plan |-> plan_data.plan, decoded |-> TRUE,
                  raised |-> FALSE, parsed |-> TRUE]
            ELSE failed(TRUE)

\* planner_attempt that retries a failed decode only: a model-client
\* exception goes straight to the fallback plan
planner_attempt_no_retry_on_exception(att, o) ==
    LET failed(parsed) ==
            IF att = max_retries - 1 \/ ~parsed
            THEN [done |-> TRUE,  plan |-> FallbackPlan, decoded |-> FALSE,
                  raised |-> FALSE, parsed |-> parsed]
            ELSE [done |-> FALSE, plan |-> <<>>, decoded |-> FALSE,
                  raised |-> FALSE, parsed |-> parsed]
    IN IF o.kind = "exception" THEN failed(FALSE)
       ELSE LET plan_data == safe_parse_json(raw_response(o)) IN
            IF plan_data.ok
            THEN [done |-> TRUE, plan |-> plan_data.plan, decoded |-> TRUE,
                  raised |-> FALSE, parsed |-> TRUE]
            ELSE failed(TRUE)

\* one pass through the body of `for attempt in range(max_retries)`:
\* what it does for the outcome o of the generate call.  done: the node
\* returns plan; raised: an exception leaves the node; parsed: the
\* completion was handed to safe_parse_json
planner_attempt(att, o) ==
    LET failed(parsed) ==
            IF att = max_retries - 1
            THEN [done |-> TRUE,  plan |-> FallbackPlan, decoded |-> FALSE,
                  raised |-> FALSE, parsed |-> parsed]
            ELSE [done |-> FALSE, plan |-> <<>>, decoded |-> FALSE,
                  raised |-> FALSE, parsed |-> parsed]
    IN IF o.kind = "exception" THEN failed(FALSE)
       ELSE LET plan_data == safe_parse_json(raw_response(o)) IN
            IF plan_data.ok
            THEN [done |-> TRUE, plan |-> plan_data.plan, decoded |-> TRUE,
                  raised |-> FALSE, parsed |-> TRUE]
            ELSE failed(TRUE)

\* PlannerEvents of a node that reports completion whenever it returns
PlannerEvents_always(evs, has_ui, plan_decoded) ==
    Emit(evs, has_ui, Ev("planning_complete", ""))

\* the events after the node returned a plan: planning_complete is emitted
\* on the path that follows a successful decode only, nodes.py:162-168; the
\* fallback returns of 180, 191 and 197 emit nothing
PlannerEvents(evs, has_ui, plan_decoded) ==
    IF plan_decoded THEN Emit(evs, has_ui, Ev("planning_complete", "")) ELSE evs

planner_node ==
    /\ pc = "planner"
    /\ attempt < max_retries
    /\ \E o \in GenerateOutcomes :
         LET r == planner_attempt(attempt, o) IN
         /\ llm_calls' = [llm_calls EXCEPT
                             !.plan = @ + 1,
                             !.plan_errors = IF o.kind = "exception" THEN @ + 1 ELSE @,
                             !.parses = IF r.parsed THEN @ + 1 ELSE @]
         /\ IF r.raised
            THEN /\ pc' = "raised"
                 /\ UNCHANGED <<plan, events, decoded_at, attempt>>
            ELSE IF r.done
            THEN /\ plan' = r.plan
                 /\ pc' = Edge("planner")
                 /\ events' = PlannerEvents(events, ui, r.decoded)
                 /\ decoded_at' = IF r.decoded THEN attempt + 1 ELSE 0
                 /\ attempt' = attempt
            ELSE IF attempt + 1 < max_retries
            THEN /\ attempt' = attempt + 1
                 /\ UNCHANGED <<plan, pc, events, decoded_at>>
            ELSE \* the loop ran out, nodes.py:195-197
                 /\ attempt' = attempt + 1
                 /\ plan' = FallbackPlan
                 /\ pc' = Edge("planner")
                 /\ UNCHANGED <<events, decoded_at>>
    /\ UNCHANGED <<tool_output, response, iteration, calls>>
    /\ UNCHANGED exec_vars
    /\ UNCHANGED trace_vars
    /\ visits' = IF attempt = 0 THEN [visits EXCEPT !["planner"] = @ + 1] ELSE visits
    /\ UNCHANGED env_vars
    /\ UNCHANGED other_vars

(***************************************************************************)
(* DISPATCH, synchronous: tool_executor_node, nodes.py:200-244.            *)
(***************************************************************************)
\* the entry appended to tool_outputs for one registered tool, given the
\* tool's outcome and whether asyncio.get_running_loop() finds a loop
sync_tool_result(tool_name, outcome, running) ==
    IF TOOL_MAP[tool_name] = "sync"
    THEN \* nodes.py:212, 238-240
         IF outcome = "returns" THEN Out(tool_name)
         ELSE ErrorExecuting(tool_name, ToolErrorMsg)
    ELSE \* the call returned a coroutine, nodes.py:214
         IF running
         THEN \* worker thread, nodes.py:219-225
              CASE outcome = "returns" -> Out(tool_name)
                [] outcome = "raises"  -> ErrorExecuting(tool_name, ToolErrorMsg)
                \* future.result() re-raises the RuntimeError into
                \* `except RuntimeError`, whose asyncio.run fails: nodes.py:226-236
                [] outcome = "raises_RuntimeError" ->
                       ErrorExecuting(tool_name, AsyncioRunMsg)
         ELSE \* asyncio.run(output), nodes.py:226-236
              IF outcome = "returns" THEN Out(tool_name)
              ELSE ErrorExecuting(tool_name, ToolErrorMsg)

\* sync_collect with a handler that logs a failure and appends nothing
sync_collect_omit(outs, tool_name, outcome, running) ==
    IF outcome = "returns"
    THEN Append(outs, sync_tool_result(tool_name, outcome, running))
    ELSE outs

\* tool_outputs after the body of the loop ran for one registered tool,
\* nodes.py:211-240
sync_collect(outs, tool_name, outcome, running) ==
    Append(outs, sync_tool_result(tool_name, outcome, running))

\* ToolTrace of a loop whose tool_done is emitted in the success path only
\* and so never for the tool it is about
ToolTrace_no_done(tr, has_ui, tool_name) ==
    Emit(tr, has_ui, Ev("tool_start", tool_name))
        \o <<Ev("invoke", tool_name), Ev("finish", tool_name)>>

\* what one pass of a loop that starts, calls and finishes one tool adds
\* to the trace: nodes.py:209-242 and 265-274
ToolTrace(tr, has_ui, tool_name) ==
    Emit(Emit(tr, has_ui, Ev("tool_start", tool_name))
             \o <<Ev("invoke", tool_name), Ev("finish", tool_name)>>,
         has_ui, Ev("tool_done", tool_name))

\* entering the node: `tool_outputs = []`
executor_enter ==
    /\ pc = "executor"
    /\ phase = "idle"
    /\ phase' = IF entry = "tool_executor_node_async" THEN "sync" ELSE "loop"
    /\ idx' = 1
    /\ tool_outputs' = <<>>
    /\ UNCHANGED <<pc, plan, tool_output, response, iteration, attempt,
                   events, calls, llm_calls, decoded_at>>
    /\ UNCHANGED trace_vars
    /\ visits' = [visits EXCEPT !["executor"] = @ + 1]
    /\ UNCHANGED env_vars
    /\ UNCHANGED other_vars

\* skip_unknown of a loop that records a diagnostic entry for the identifier
skip_unknown_placeholder(outs, tool_name) ==
    Append(outs, ErrorExecuting(tool_name, "unknown tool"))

\* tool_outputs after the loop met an identifier that is not a key of
\* TOOL_MAP: `if tool_name in TOOL_MAP:` has no else branch, nodes.py:207-208
skip_unknown(outs, tool_name) == outs

\* one iteration of `for tool_name in state.plan`
tool_executor_node ==
    /\ pc = "executor"
    /\ phase = "loop"
    /\ idx <= Len(plan)
    /\ LET tool_name == plan[idx] IN
         IF tool_name \in DOMAIN TOOL_MAP
         THEN /\ events' = Emit(Emit(events, ui, Ev("tool_start", tool_name)),
                                ui, Ev("tool_done", tool_name))
              /\ trace' = ToolTrace(trace, ui, tool_name)
              /\ calls' = Append(calls, tool_name)
              /\ tool_outputs' = sync_collect(tool_outputs, tool_name,
                                              tool_outcome[tool_name], loop_running)
         ELSE /\ tool_outputs' = skip_unknown(tool_outputs, tool_name)
              /\ UNCHANGED <<events, calls, trace>>
    /\ idx' = idx + 1
    /\ UNCHANGED <<pc, plan, tool_output, response, iteration, attempt, phase,
                   llm_calls, decoded_at, awaiting>>
    /\ UNCHANGED visits
    /\ UNCHANGED env_vars
    /\ UNCHANGED other_vars

\* `return {"tool_output": tool_outputs}`, nodes.py:244 and 297
executor_return ==
    /\ pc = "executor"
    /\ \/ phase = "loop" /\ idx > Len(plan)
       \/ phase = "return"
    /\ tool_output' = tool_outputs
    /\ pc' = AfterExecutor
    /\ phase' = "idle"
    /\ UNCHANGED <<plan, response, iteration, attempt, idx, tool_outputs,
                   events, calls, llm_calls, decoded_at>>
    /\ UNCHANGED trace_vars
    /\ UNCHANGED visits
    /\ UNCHANGED env_vars
    /\ UNCHANGED other_vars

(***************************************************************************)
(* DISPATCH, asynchronous: tool_executor_node_async, nodes.py:247-297.     *)
(***************************************************************************)
\* sync_tools without the endswith("_async") test
sync_tools_all(pl) ==
    SelectSeq(pl, LAMBDA t : t \in DOMAIN TOOL_MAP)

\* nodes.py:253-261
sync_tools(pl) ==
    SelectSeq(pl, LAMBDA t : t \in DOMAIN TOOL_MAP /\ ~endswith_async(t))
async_tools(pl) ==
    SelectSeq(pl, LAMBDA t : t \in DOMAIN TOOL_MAP /\ endswith_async(t))

\* the entry appended for a tool that was called (sync) or awaited (async)
async_tool_result(tool_name, outcome) ==
    IF outcome = "returns" THEN Out(tool_name)
    ELSE ErrorExecuting(tool_name, ToolErrorMsg)

\* tool_outputs after one try/except of nodes.py:267-272 or 288-293
async_collect(outs, tool_name, outcome) ==
    Append(outs, async_tool_result(tool_name, outcome))

\* one iteration of `for tool_name in sync_tools`, nodes.py:264-274
executor_async_sync_tool ==
    /\ pc = "executor"
    /\ phase = "sync"
    /\ idx <= Len(sync_tools(plan))
    /\ LET tool_name == sync_tools(plan)[idx] IN
         /\ events' = Emit(Emit(events, ui, Ev("tool_start", tool_name)),
                           ui, Ev("tool_done", tool_name))
         /\ trace' = ToolTrace(trace, ui, tool_name)
         /\ calls' = Append(calls, tool_name)
         /\ tool_outputs' = async_collect(tool_outputs, tool_name,
                                          tool_outcome[tool_name])
    /\ idx' = idx + 1
    /\ UNCHANGED <<pc, plan, tool_output, response, iteration, attempt, phase,
                   llm_calls, decoded_at, awaiting>>
    /\ UNCHANGED visits
    /\ UNCHANGED env_vars
    /\ UNCHANGED other_vars

\* one iteration of the loop that creates the coroutines, nodes.py:279-283;
\* calling an `async def` runs none of its body
executor_async_create_task ==
    /\ pc = "executor"
    /\ phase = "create"
    /\ idx <= Len(async_tools(plan))
    /\ events' = Emit(events, ui, Ev("tool_start", async_tools(plan)[idx]))
    /\ trace' = Emit(trace, ui, Ev("tool_start", async_tools(plan)[idx]))
    /\ idx' = idx + 1
    /\ UNCHANGED <<pc, plan, tool_output, response, iteration, attempt, phase,
                   tool_outputs, calls, llm_calls, decoded_at, awaiting>>
    /\ UNCHANGED visits
    /\ UNCHANGED env_vars
    /\ UNCHANGED other_vars

\* `output = await task`, nodes.py:286-289: the loop reaches the coroutine
\* at position idx and the await starts running its body; the coroutines
\* created at nodes.py:282 are plain coroutine objects, none runs before
\* it is awaited, and the loop does not go on while one is awaited
executor_async_await_task ==
    /\ pc = "executor"
    /\ phase = "await"
    /\ idx <= Len(async_tools(plan))
    /\ awaiting = 0
    /\ awaiting' = idx
    /\ calls' = Append(calls, async_tools(plan)[idx])
    /\ trace' = Append(trace, Ev("invoke", async_tools(plan)[idx]))
    /\ UNCHANGED <<pc, plan, tool_output, response, iteration, attempt, phase,
                   idx, tool_outputs, events, llm_calls, decoded_at>>
    /\ UNCHANGED visits
    /\ UNCHANGED env_vars
    /\ UNCHANGED other_vars

\* the awaited coroutine returns or raises, nodes.py:289-295
executor_async_task_done ==
    /\ pc = "executor"
    /\ phase = "await"
    /\ awaiting # 0
    /\ LET tool_name == async_tools(plan)[awaiting] IN
         /\ tool_outputs' = async_collect(tool_outputs, tool_name,
                                          tool_outcome[tool_name])
         /\ events' = Emit(events, ui, Ev("tool_done", tool_name))
         /\ trace' = Emit(Append(trace, Ev("finish", tool_name)),
                          ui, Ev("tool_done", tool_name))
    /\ idx' = awaiting + 1
    /\ awaiting' = 0
    /\ UNCHANGED <<pc, plan, tool_output, response, iteration, attempt, phase,
                   calls, llm_calls, decoded_at>>
    /\ UNCHANGED visits
    /\ UNCHANGED env_vars
    /\ UNCHANGED other_vars

\* leaving one loop of tool_executor_node_async for the next,
\* nodes.py:264, 277, 279, 286
executor_async_next_loop ==
    /\ pc = "executor"
    /\ \/ /\ phase = "sync"
          /\ idx > Len(sync_tools(plan))
          /\ phase' = IF async_tools(plan) # <<>> THEN "create" ELSE "return"
       \/ /\ phase = "create"
          /\ idx > Len(async_tools(plan))
          /\ phase' = "await"
       \/ /\ phase = "await"
          /\ idx > Len(async_tools(plan))
          /\ awaiting = 0
          /\ phase' = "return"
    /\ idx' = 1
    /\ UNCHANGED <<pc, plan, tool_output, response, iteration, attempt,
                   tool_outputs, events, calls, llm_calls, decoded_at>>
    /\ UNCHANGED trace_vars
    /\ UNCHANGED visits
    /\ UNCHANGED env_vars
    /\ UNCHANGED other_vars

(***************************************************************************)
(* VALIDATE: validation_critique_node, nodes.py:300-302, followed by the   *)
(* conditional edge of graph.py:40-44.                                     *)
(***************************************************************************)
\* validation_critique that leaves the counter alone
validation_critique_keep(it) == it

\* the patch the node returns: {"iteration": state.iteration + 1}
validation_critique(it) == it + 1

\* AfterValidator of a graph whose validator always leads to the synthesizer
AfterValidator_always_synth(it) == "synthesizer"

\* the node that is due after the validator returned iteration it: the
\* target the mapping gives for the selector's key, graph.py:40-44
AfterValidator(it) == ConditionalEdges(_edge_selector(it))

validation_critique_node ==
    /\ pc = "validator"
    /\ iteration' = validation_critique(iteration)
    /\ pc' = AfterValidator(validation_critique(iteration))
    /\ UNCHANGED <<plan, tool_output, response, attempt, events, calls,
                   llm_calls, decoded_at>>
    /\ UNCHANGED exec_vars
    /\ UNCHANGED trace_vars
    /\ visits' = [visits EXCEPT !["validator"] = @ + 1]
    /\ UNCHANGED env_vars
    /\ UNCHANGED other_vars

(***************************************************************************)
(* SYNTHESIZE: synthesizer_node, nodes.py:307-344.                         *)
(***************************************************************************)
\* synthesizer_response without the try/except around the model call
synthesizer_response_unguarded(o) ==
    IF o = "text" THEN [raised |-> FALSE, response |-> "answer"]
    ELSE [raised |-> TRUE, response |-> ""]

\* final_response for the outcome of the single generate call
synthesizer_response(o) ==
    CASE o = "text" ->
             [raised |-> FALSE, response |-> "answer"]
      \* str(e) of the exception raised by generate
      [] o = "exception" ->
             [raised |-> FALSE, response |-> "Error generating response: LLM error"]
      \* response['response'] raises KeyError
      [] o = "no_response_key" ->
             [raised |-> FALSE, response |-> "Error generating response: 'response'"]

\* SynthTrace of a node that emits the completion event only after a call
\* that returned
SynthTrace_success_only(tr, has_ui, o) ==
    IF o = "text"
    THEN Emit(Append(Emit(tr, has_ui, Ev("synth_start", "")),
                     Ev("generate", "synthesizer")),
              has_ui, Ev("Answer ready", ""))
    ELSE Append(Emit(tr, has_ui, Ev("synth_start", "")),
                Ev("generate", "synthesizer"))

\* what the node adds to the trace when generate has outcome o: synth_start
\* (nodes.py:311-312), the single generate call inside the try
\* (327-335), the completion event (341-342)
SynthTrace(tr, has_ui, o) ==
    Emit(Append(Emit(tr, has_ui, Ev("synth_start", "")),
                Ev("generate", "synthesizer")),
         has_ui, Ev("Answer ready", ""))

synthesizer_node ==
    /\ pc = "synthesizer"
    /\ \E o \in SynthOutcomes :
         LET r == synthesizer_response(o) IN
         /\ llm_calls' = [llm_calls EXCEPT
                             !.synth = @ + 1,
                             !.synth_errors = IF o = "exception" THEN @ + 1 ELSE @]
         /\ IF r.raised
            THEN /\ pc' = "raised"
                 /\ events' = Emit(events, ui, Ev("synth_start", ""))
                 /\ UNCHANGED response
            ELSE /\ pc' = Edge("synthesizer")
                 /\ events' = Emit(Emit(events, ui, Ev("synth_start", "")),
                                   ui, Ev("Answer ready", ""))
                 /\ response' = r.response
         /\ trace' = SynthTrace(trace, ui, o)
    /\ UNCHANGED <<plan, tool_output, iteration, attempt, calls, decoded_at>>
    /\ UNCHANGED exec_vars
    /\ UNCHANGED awaiting
    /\ visits' = [visits EXCEPT !["synthesizer"] = @ + 1]
    /\ UNCHANGED env_vars
    /\ UNCHANGED other_vars

(***************************************************************************)
(* Specifications.                                                         *)
(***************************************************************************)
\* a full engine run: GRAPH.invoke(state)
Next ==
    \/ planner_node
    \/ executor_enter
    \/ tool_executor_node
    \/ executor_return
    \/ validation_critique_node
    \/ synthesizer_node

Spec == Init /\ [][Next]_vars

\* the scheduler runs every node that is due: no node waits forever
FairSpec == Spec /\ WF_vars(Next)

\* plans handed directly to a dispatcher
RECURSIVE PlansUpTo(_)
PlansUpTo(n) ==
    IF n = 0 THEN {<<>>}
    ELSE LET shorter == PlansUpTo(n - 1) IN
         shorter \cup {Append(p, t) : p \in {q \in shorter : Len(q) = n - 1},
                                      t \in ToolIds \cup {UnknownTool}}

\* tool_executor_node(state) or `await tool_executor_node_async(state)`
\* called on a state that holds a plan
InitDispatch ==
    /\ entry \in {"tool_executor_node", "tool_executor_node_async"}
    /\ pc = "executor"
    /\ query = "Capital of France?"
    /\ plan \in PlansUpTo(MaxPlanLen)
    /\ tool_output = <<>>
    /\ response = ""
    /\ iteration = 0
    /\ iteration0 = 0
    /\ ui \in BOOLEAN
    /\ tool_outcome \in ToolOutcomeAssignments
    \* a coroutine function is awaited from a running loop
    /\ loop_running \in (IF entry = "tool_executor_node_async" THEN {TRUE} ELSE BOOLEAN)
    /\ Locals
    /\ OthersIdle

NextDispatch ==
    \/ executor_enter
    \/ tool_executor_node
    \/ executor_async_sync_tool
    \/ executor_async_create_task
    \/ executor_async_await_task
    \/ executor_async_task_done
    \/ executor_async_next_loop
    \/ executor_return

SpecDispatch == InitDispatch /\ [][NextDispatch]_vars

(***************************************************************************)
(* Properties of the dispatchers (checked under SpecDispatch).             *)
(***************************************************************************)
Returned == pc = "__end__"

AllRegistered(pl) == \A i \in 1..Len(pl) : pl[i] \in DOMAIN TOOL_MAP

\* the tool at position i of the plan raises
Raises(i) == tool_outcome[plan[i]] # "returns"

\* number of times tool t occurs in the sequence xs
RECURSIVE Count(_, _)
Count(xs, t) ==
    IF xs = <<>> THEN 0
    ELSE (IF Head(xs) = t THEN 1 ELSE 0) + Count(Tail(xs), t)

C2_DiagnosticRecorded ==
    (Returned /\ AllRegistered(plan)) =>
        \A i \in 1..Len(plan) :
            Raises(i) =>
                /\ i <= Len(tool_output)
                /\ tool_output[i] = ErrorExecuting(plan[i], ToolErrorMsg)
                /\ \A j \in (i + 1)..Len(plan) :
                      Count(calls, plan[j]) = Count(plan, plan[j])

\* C3: tool_executor_node_async returns the outputs in the original plan
\* order: entry i of the result belongs to plan[i].
C3_PlanOrder ==
    (Returned /\ entry = "tool_executor_node_async" /\ AllRegistered(plan)) =>
        /\ Len(tool_output) = Len(plan)
        /\ \A i \in 1..Len(plan) : tool_output[i].id = plan[i]

(***************************************************************************)
(* Properties of an engine run (checked under Spec and FairSpec).          *)
(***************************************************************************)
HasEvent(name) == \E i \in 1..Len(events) : events[i].e = name

NoToolSucceeded == \A i \in 1..Len(tool_output) : tool_output[i].kind = "error"

\* every call of the model client raised
ModelAlwaysFailed ==
    /\ llm_calls.plan_errors = llm_calls.plan
    /\ llm_calls.synth_errors = llm_calls.synth

IsErrorMarker(r) ==
    r \in {"Error generating response: LLM error",
           "Error generating response: 'response'"}

\* C4: every engine run reaches the terminal state, whatever the model
\* client and the tools do and whatever iteration it was entered with.
C4_Terminates == <>(pc = "__end__")

\* C4 witness: a run entered with the largest iteration ended although the
\* model client never answered and a tool raised
C4_Witness ==
    /\ Returned
    /\ iteration0 = MaxIteration
    /\ ModelAlwaysFailed
    /\ NoToolSucceeded
    /\ tool_output # <<>>

C6_FallbackPlan ==
    /\ pc # "raised"
    /\ (pc # "planner" /\ decoded_at = 0) =>
          /\ plan = <<"vector_search">>
          /\ llm_calls.plan = max_retries
          /\ Returned => (calls = <<"vector_search">> /\ Len(tool_output) = 1)

\* C6 witness: a run on the empty query fell back after one exception and
\* two undecodable completions, and ended
C6_Witness ==
    /\ Returned
    /\ query = ""
    /\ decoded_at = 0
    /\ llm_calls.plan_errors = 1
    /\ llm_calls.parses = 2
    /\ plan = <<"vector_search">>

\* C7: PLAN calls the model once per attempt: k calls when the k-th
\* completion is the first that decodes, max_retries calls when none
\* does, each completion is parsed at most once, and no call follows a
\* successful decode.
C7_OneModelCallPerAttempt ==
    /\ llm_calls.parses + llm_calls.plan_errors = llm_calls.plan
    /\ pc = "planner" => llm_calls.plan = attempt
    /\ pc # "planner" =>
          llm_calls.plan = (IF decoded_at > 0 THEN decoded_at ELSE max_retries)

\* C7 witness: the second completion decoded after a first failure
C7_Witness ==
    /\ Returned
    /\ decoded_at = 2
    /\ llm_calls.plan = 2

\* C8: a run entered with iteration n ends with iteration n + 1, and only
\* VALIDATE changes iteration, by exactly one.
C8_IterationPlusOne ==
    /\ [](Returned => iteration = iteration0 + 1)
    /\ [][iteration' # iteration =>
             (pc = "validator" /\ iteration' = iteration + 1)]_vars

\* C8 witness: a fresh run ended with iteration 1
C8_Witness ==
    /\ Returned
    /\ iteration0 = 0
    /\ iteration = 1

\* C9: SYNTHESIZE runs exactly when the incremented iteration is at most
\* the ceiling; otherwise the run ends without a synthesis model call and
\* without 'synth_start'.
C9_SynthesizeIffWithinCeiling ==
    /\ pc = "synthesizer" => iteration <= IterationCeiling
    /\ Returned =>
          IF iteration <= IterationCeiling
          THEN llm_calls.synth = 1 /\ (ui => HasEvent("synth_start"))
          ELSE llm_calls.synth = 0 /\ ~HasEvent("synth_start")

\* C9 witness: a run that entered VALIDATE with iteration 3 ended without
\* invoking the synthesizer
C9_Witness ==
    /\ Returned
    /\ ui
    /\ iteration0 = 3
    /\ llm_calls.synth = 0
    /\ ~HasEvent("synth_start")

RECURSIVE CountEv(_, _, _, _)
CountEv(tr, n, e, id) ==
    IF n = 0 THEN 0
    ELSE (IF tr[n] = Ev(e, id) THEN 1 ELSE 0) + CountEv(tr, n - 1, e, id)

\* the registered synchronous identifiers of a plan, in plan order
SyncPart(pl) ==
    SelectSeq(pl, LAMBDA t : t \in {"vector_search", "graph_search"})

\* C11: for every dispatched plan item 'tool_start:<id>' is emitted before
\* the tool is invoked and 'tool_done:<id>' after it ended, whether it
\* returned or raised; when the dispatcher returns every tool_start has
\* its tool_done.
C11_StartBeforeDoneAfter ==
    ui =>
      /\ \A n \in 1..Len(trace) :
            LET t == trace[n].id IN
            /\ trace[n].e = "invoke" =>
                  CountEv(trace, n, "invoke", t) <= CountEv(trace, n, "tool_start", t)
            /\ trace[n].e = "tool_done" =>
                  /\ CountEv(trace, n, "tool_done", t) <= CountEv(trace, n, "finish", t)
                  /\ CountEv(trace, n, "tool_done", t) <= CountEv(trace, n, "tool_start", t)
      /\ Returned =>
            \A t \in ToolIds :
               /\ CountEv(trace, Len(trace), "tool_start", t) = Count(plan, t)
               /\ CountEv(trace, Len(trace), "tool_done", t) = Count(plan, t)
               /\ CountEv(trace, Len(trace), "invoke", t) = Count(plan, t)

\* C11 witness: the asynchronous dispatcher returned after a tool raised
\* and another returned, with an observer attached
C11_Witness ==
    /\ Returned
    /\ ui
    /\ entry = "tool_executor_node_async"
    /\ Len(plan) = 3
    /\ AllRegistered(plan)
    /\ \E i, j \in 1..Len(tool_output) :
          /\ tool_output[i].kind = "error"
          /\ tool_output[j].kind = "output"
    /\ Len(trace) = 12

\* C12: in tool_executor_node_async the synchronous tools run one at a
\* time in plan order, and nothing of an asynchronous tool (tool_start,
\* invocation) happens before every synchronous tool of the plan ended.
C12_SyncFirstInOrder ==
    entry = "tool_executor_node_async" =>
      LET st == SelectSeq(trace, LAMBDA x : x.e \in {"invoke", "finish"}
                                           /\ ~endswith_async(x.id))
      IN /\ \A i \in 1..Len(st) :
               st[i] = IF i % 2 = 1
                       THEN Ev("invoke", SyncPart(plan)[(i + 1) \div 2])
                       ELSE Ev("finish", SyncPart(plan)[i \div 2])
         /\ \A n \in 1..Len(trace) :
               endswith_async(trace[n].id) =>
                  /\ Len(st) = 2 * Len(SyncPart(plan))
                  /\ n < Len(trace) => endswith_async(trace[n + 1].id)

\* C12 witness: a plan whose first item is asynchronous and that holds two
\* synchronous items was dispatched
C12_Witness ==
    /\ Returned
    /\ entry = "tool_executor_node_async"
    /\ Len(plan) = 3
    /\ endswith_async(plan[1])
    /\ Len(SyncPart(plan)) = 2
    /\ Len(tool_output) = 3

\* C13: with two or more asynchronous tools in the plan, a later one can
\* begin executing while an earlier one has begun and not yet completed.
C13_AsyncToolsOverlap ==
    (/\ entry = "tool_executor_node_async"
     /\ pc = "executor"
     /\ phase = "await"
     /\ awaiting # 0
     /\ awaiting < Len(async_tools(plan))) =>
        ENABLED executor_async_await_task

(***************************************************************************)
(* Metrics store, metrics.py.  Caller threads each make MaxCalls calls of  *)
(* one mutating operation while one get_metrics() call builds a snapshot.  *)
(***************************************************************************)
MaxThreads == 2
MaxCalls == 2

\* calls of timing() made on one timer by the thread that fills it
MaxTimingCalls == 1003

ThreadIds == 1..MaxThreads
MetricOps == {"increment", "error_count", "timing"}

\* `with _metrics_lock:` can be entered, metrics.py:38
lock_free_unguarded(lock) == TRUE

\* `with _metrics_lock:` can be entered, metrics.py:38
lock_free(lock) == lock = 0

\* the duration a timing call of thread t records: the number of calls the
\* thread has left, so that the values recorded by one thread are distinct
\* and tell the order in which they arrived
duration_ms(t) == threads[t].left

\* timing(timer_name, duration_ms) keeps the last 1000 values, metrics.py:48-49
timer_cap == 1000

\* keep_last that keeps the first 1000 values
keep_last_first(values) ==
    IF Len(values) > timer_cap
    THEN SubSeq(values, 1, timer_cap)
    ELSE values

\* values[-1000:] when there are more than 1000 values
keep_last(values) ==
    IF Len(values) > timer_cap
    THEN SubSeq(values, Len(values) - timer_cap + 1, Len(values))
    ELSE values

RECURSIVE sum(_)
sum(values) == IF values = <<>> THEN 0 ELSE Head(values) + sum(Tail(values))

\* threads, each about to make MaxCalls calls of one of the operations
\* ops, started on a store that was just reset
InitStore(ops) ==
    /\ EngineIdle
    /\ _metrics = reset_metrics
    /\ _metrics_lock = 0
    /\ threads \in [ThreadIds -> [op : ops, pc : {"call"}, left : {MaxCalls},
                                  tmp : {0}]]
    /\ reader = reader_idle
    /\ completed = {}
    /\ RetryIdle
    /\ DecodeIdle
    /\ BridgeIdle
    /\ GettersIdle

\* threads that all increment one counter, tests/test_utils_metrics.py:184-205
InitIncrement == InitStore({"increment"})

\* threads that call increment, error_count or timing
InitMetrics == InitStore(MetricOps)

AllJoined == \A t \in ThreadIds : threads[t].pc = "done"

\* a mutation completed while a get_metrics() call is under way
record_completed(m) ==
    IF reader.pc \in {"idle", "done"} THEN completed ELSE completed \cup {m}

\* the locked block of thread t is left and its call returns
release(t) ==
    [threads EXCEPT ![t].left = @ - 1,
                    ![t].pc = IF threads[t].left = 1 THEN "done" ELSE "call"]

\* increment: `with _metrics_lock:` entered and counters[counter_name]
\* read for the `+=`, metrics.py:38-39
increment_read(t) ==
    /\ threads[t].pc = "call" /\ threads[t].op = "increment"
    /\ lock_free(_metrics_lock)
    /\ _metrics_lock' = t
    /\ threads' = [threads EXCEPT ![t].pc = "l39", ![t].tmp = _metrics.counters]
    /\ UNCHANGED <<_metrics, reader, completed>>
    /\ UNCHANGED non_metrics_vars

\* increment: the sum stored by the `+=` and the lock released,
\* metrics.py:39-40
increment_write(t) ==
    /\ threads[t].pc = "l39"
    /\ _metrics' = [_metrics EXCEPT !.counters = threads[t].tmp + 1]
    /\ _metrics_lock' = 0
    /\ threads' = release(t)
    /\ completed' = record_completed(_metrics')
    /\ UNCHANGED reader
    /\ UNCHANGED non_metrics_vars

\* error_count: lock taken and
\* _metrics["error_counts"][error_type] += count, metrics.py:71-72
error_count_72(t) ==
    /\ threads[t].pc = "call" /\ threads[t].op = "error_count"
    /\ lock_free(_metrics_lock)
    /\ _metrics_lock' = t
    /\ _metrics' = [_metrics EXCEPT !.error_counts = @ + 1]
    /\ threads' = [threads EXCEPT ![t].pc = "l73"]
    /\ UNCHANGED <<reader, completed>>
    /\ UNCHANGED non_metrics_vars

\* error_count: _metrics["system_health"]["failed_requests"] += count and
\* the lock released, metrics.py:73-74
error_count_73(t) ==
    /\ threads[t].pc = "l73"
    /\ _metrics' = [_metrics EXCEPT !.failed_requests = @ + 1]
    /\ _metrics_lock' = 0
    /\ threads' = release(t)
    /\ completed' = record_completed(_metrics')
    /\ UNCHANGED reader
    /\ UNCHANGED non_metrics_vars

\* timing: lock taken and
\* _metrics["timers"][timer_name].append(duration_ms), metrics.py:45-46;
\* the recorded duration is duration_ms(t)
timing_append(t) ==
    /\ threads[t].pc = "call" /\ threads[t].op = "timing"
    /\ lock_free(_metrics_lock)
    /\ _metrics_lock' = t
    /\ _metrics' = [_metrics EXCEPT !.timers = Append(@, duration_ms(t))]
    /\ threads' = [threads EXCEPT ![t].pc = "l48"]
    /\ UNCHANGED <<reader, completed>>
    /\ UNCHANGED non_metrics_vars

\* timing: the truncation to the last 1000 values and the lock released,
\* metrics.py:48-50
timing_truncate(t) ==
    /\ threads[t].pc = "l48"
    /\ _metrics' = [_metrics EXCEPT !.timers = keep_last(@)]
    /\ _metrics_lock' = 0
    /\ threads' = release(t)
    /\ completed' = record_completed(_metrics')
    /\ UNCHANGED reader
    /\ UNCHANGED non_metrics_vars

\* get_metrics(): `with _metrics_lock: metrics = _metrics.copy()`,
\* metrics.py:91-92.  The copy is shallow: `metrics` holds the very inner
\* dicts and lists of the store, so what follows reads the store.
get_metrics_copy ==
    /\ reader.pc = "idle"
    /\ lock_free(_metrics_lock)
    /\ reader' = [reader EXCEPT !.pc = "l96", !.joined = AllJoined]
    /\ completed' = {_metrics}
    /\ UNCHANGED <<_metrics, _metrics_lock, threads>>
    /\ UNCHANGED non_metrics_vars

\* "counters": dict(metrics["counters"]), metrics.py:96
get_metrics_counters ==
    /\ reader.pc = "l96"
    /\ reader' = [reader EXCEPT !.pc = "l100", !.counters = _metrics.counters]
    /\ UNCHANGED <<_metrics, _metrics_lock, threads, completed>>
    /\ UNCHANGED non_metrics_vars

\* "error_counts": dict(metrics["error_counts"]), metrics.py:100
get_metrics_error_counts ==
    /\ reader.pc = "l100"
    /\ reader' = [reader EXCEPT !.pc = "l101", !.error_counts = _metrics.error_counts]
    /\ UNCHANGED <<_metrics, _metrics_lock, threads, completed>>
    /\ UNCHANGED non_metrics_vars

\* "system_health": metrics["system_health"].copy(), metrics.py:101
get_metrics_system_health ==
    /\ reader.pc = "l101"
    /\ reader' = [reader EXCEPT !.pc = "l106",
                                !.failed_requests = _metrics.failed_requests]
    /\ UNCHANGED <<_metrics, _metrics_lock, threads, completed>>
    /\ UNCHANGED non_metrics_vars

\* `if values:` and "count": len(values), metrics.py:106-109; with no
\* value recorded the timer has no statistics and the call returns
get_metrics_timer_count ==
    /\ reader.pc = "l106"
    /\ reader' = [reader EXCEPT !.pc = IF _metrics.timers = <<>> THEN "done" ELSE "l112",
                                !.timer_count = Len(_metrics.timers)]
    /\ UNCHANGED <<_metrics, _metrics_lock, threads, completed>>
    /\ UNCHANGED non_metrics_vars

\* sum(values) of "avg", metrics.py:112, and the return at 135
get_metrics_timer_sum ==
    /\ reader.pc = "l112"
    /\ reader' = [reader EXCEPT !.pc = "done", !.timer_sum = sum(_metrics.timers)]
    /\ UNCHANGED <<_metrics, _metrics_lock, threads, completed>>
    /\ UNCHANGED non_metrics_vars

NextMetrics ==
    \/ \E t \in ThreadIds : increment_read(t)
    \/ \E t \in ThreadIds : increment_write(t)
    \/ \E t \in ThreadIds : error_count_72(t)
    \/ \E t \in ThreadIds : error_count_73(t)
    \/ \E t \in ThreadIds : timing_append(t)
    \/ \E t \in ThreadIds : timing_truncate(t)
    \/ get_metrics_copy
    \/ get_metrics_counters
    \/ get_metrics_error_counts
    \/ get_metrics_system_health
    \/ get_metrics_timer_count
    \/ get_metrics_timer_sum

SpecMetrics == InitMetrics /\ [][NextMetrics]_vars

NextIncrement ==
    \/ \E t \in ThreadIds : increment_read(t)
    \/ \E t \in ThreadIds : increment_write(t)
    \/ get_metrics_copy
    \/ get_metrics_counters
    \/ get_metrics_error_counts
    \/ get_metrics_system_health
    \/ get_metrics_timer_count

SpecIncrement == InitIncrement /\ [][NextIncrement]_vars

\* what get_metrics() would return from store m
snapshot_of(m) ==
    [counters |-> m.counters, error_counts |-> m.error_counts,
     failed_requests |-> m.failed_requests,
     timer_count |-> Len(m.timers), timer_sum |-> sum(m.timers)]

\* what the get_metrics() call returned
returned_snapshot ==
    [counters |-> reader.counters, error_counts |-> reader.error_counts,
     failed_requests |-> reader.failed_requests,
     timer_count |-> reader.timer_count, timer_sum |-> reader.timer_sum]

\* C14: once T threads have each made N increment('x') calls on a reset
\* store, the counter, and a snapshot taken after they were joined, hold
\* exactly N*T.
C14_NoLostIncrement ==
    /\ AllJoined => _metrics.counters = MaxCalls * MaxThreads
    /\ (reader.pc = "done" /\ reader.joined) =>
          returned_snapshot.counters = MaxCalls * MaxThreads

\* C14 witness: every thread incremented, all were joined, then a snapshot
\* was taken
C14_Witness ==
    /\ \A t \in ThreadIds : threads[t].op = "increment"
    /\ AllJoined
    /\ reader.pc = "done"
    /\ reader.joined
    /\ returned_snapshot.counters = MaxCalls * MaxThreads

\* C15: the snapshot get_metrics() returns is the store as it was at one
\* point in the sequence of completed mutations.
C15_SnapshotNotTorn ==
    reader.pc = "done" =>
       \E m \in completed : returned_snapshot = snapshot_of(m)

(***************************************************************************)
(* Retry policy, retry.py: tenacity's retry(stop=stop_after_attempt(3),    *)
(* wait=wait_exponential(multiplier=0.5, min=0.5, max=4)) around func,     *)
(* applied once (retry(func)) or again on its own result.                  *)
(***************************************************************************)
MaxWrapDepth == 2

\* steps another task of the caller's event loop is watched for
MaxTicks == 2

max_attempt_number == 3
CallArgs == {"a", "b", "c", "d"}

\* what func returns for its arguments
Value(args) == <<"result", args>>

\* the exception the n-th invocation of func raises when it fails: each
\* failure has its own message, and the types alternate
Raised(n) ==
    [type |-> IF n % 2 = 1 THEN "ValueError" ELSE "RuntimeError",
     msg |-> <<"failure", n>>, last_attempt |-> <<>>]

\* tenacity raises RetryError(last_attempt) `from` the attempt's exception
\* when stop says so and reraise is not set
RetryError(e) ==
    [type |-> "RetryError", msg |-> <<"RetryError">>, last_attempt |-> <<e>>]

\* stop_after_attempt that stops one attempt later
stop_after_attempt_gt(n) == n > max_attempt_number

\* stop_after_attempt(3), retry.py:23
stop_after_attempt(n) == n >= max_attempt_number

RECURSIVE exp2(_)
exp2(n) == IF n = 0 THEN 1 ELSE 2 * exp2(n - 1)

Min2(a, b) == IF a < b THEN a ELSE b
Max2(a, b) == IF a > b THEN a ELSE b

\* wait_exponential(multiplier=0.5, min=0.5, max=4), retry.py:24, counted
\* in half seconds: max(max(0, min), min(multiplier * 2^(n-1), max))
wait_exponential(n) ==
    Max2(Max2(0, 1), Min2(1 * exp2(n - 1), 8))

\* attempt att[level] of wrapper `level` ended with exception e: the
\* wrapper retries, or gives up and so fails the attempt of the wrapper
\* around it (level 1 is the outermost, level 0 the caller)
RECURSIVE attempt_failed(_, _, _)
attempt_failed(level, att, e) ==
    IF level = 0
    THEN [raised |-> TRUE, exc |-> e, att |-> att, wait |-> 0]
    ELSE IF stop_after_attempt(att[level])
    THEN attempt_failed(level - 1, att, RetryError(e))
    ELSE [raised |-> FALSE, exc |-> e,
          att |-> [i \in DOMAIN att |->
                      IF i = level THEN att[i] + 1
                      ELSE IF i > level THEN 1 ELSE att[i]],
          wait |-> wait_exponential(att[level])]

FuncOutcomes == {"returns", "raises"}

\* _wrapper(*args, **kwargs) called, retry.py:28-29
InitRetry ==
    /\ EngineIdle
    /\ MetricsIdle
    /\ wrap_depth \in 1..MaxWrapDepth
    /\ call_args \in CallArgs
    /\ attempt_number = [i \in 1..wrap_depth |-> 1]
    /\ invocations = <<>>
    /\ slept = <<>>
    /\ retry_pc = "call"
    /\ retry_result = [kind |-> "none"]
    /\ DecodeIdle
    /\ BridgeIdle
    /\ GettersIdle

\* one attempt: func(*args, **kwargs) is invoked by the innermost wrapper;
\* its value is returned through every wrapper, its exception handled by
\* them from the innermost outwards
retry_attempt ==
    /\ retry_pc = "call"
    /\ \E o \in FuncOutcomes :
         LET n == Len(invocations) + 1
             e == Raised(n)
             h == attempt_failed(wrap_depth, attempt_number, e)
         IN /\ invocations' = Append(invocations,
                                     [args |-> call_args, kind |-> o,
                                      exc |-> IF o = "raises" THEN <<e>> ELSE <<>>])
            /\ IF o = "returns"
               THEN /\ retry_pc' = "returned"
                    /\ retry_result' = [kind |-> "return", value |-> Value(call_args)]
                    /\ UNCHANGED <<attempt_number, slept>>
               ELSE IF h.raised
               THEN /\ retry_pc' = "raised"
                    /\ retry_result' = [kind |-> "raise", exc |-> h.exc]
                    /\ UNCHANGED <<attempt_number, slept>>
               ELSE /\ retry_pc' = "sleep"
                    /\ attempt_number' = h.att
                    /\ slept' = Append(slept, h.wait)
                    /\ UNCHANGED retry_result
    /\ UNCHANGED <<wrap_depth, call_args>>
    /\ UNCHANGED non_retry_vars

\* the back-off sleep between two attempts is over
retry_sleep ==
    /\ retry_pc = "sleep"
    /\ retry_pc' = "call"
    /\ UNCHANGED <<wrap_depth, call_args, attempt_number, invocations, slept,
                   retry_result>>
    /\ UNCHANGED non_retry_vars

NextRetry ==
    \/ retry_attempt
    \/ retry_sleep

SpecRetry == InitRetry /\ [][NextRetry]_vars

AllFailed == \A i \in 1..Len(invocations) : invocations[i].kind = "raises"

\* C16: when all 3 attempts of the wrapped operation fail, retry raises
\* the very exception of the last attempt, same type and message, not a
\* wrapper around it.
C16_LastExceptionRaised ==
    (wrap_depth = 1 /\ retry_pc = "raised") =>
       /\ retry_result.exc.type = invocations[Len(invocations)].exc[1].type
       /\ retry_result.exc.msg = invocations[Len(invocations)].exc[1].msg

\* C17: retry invokes the operation until its first success and at most 3
\* times, each time with the caller's arguments: the call returns the
\* value of attempt k <= 3 after exactly k invocations, and a call that
\* fails made exactly 3.
C17_UntilFirstSuccess ==
    wrap_depth = 1 =>
       /\ Len(invocations) <= max_attempt_number
       /\ \A i \in 1..Len(invocations) :
             /\ invocations[i].args = call_args
             /\ i < Len(invocations) => invocations[i].kind = "raises"
       /\ retry_pc = "returned" =>
             /\ invocations[Len(invocations)].kind = "returns"
             /\ retry_result = [kind |-> "return", value |-> Value(call_args)]
       /\ retry_pc = "raised" =>
             /\ Len(invocations) = max_attempt_number
             /\ AllFailed
       /\ retry_pc \in {"call", "sleep"} =>
             /\ AllFailed
             /\ Len(invocations) < max_attempt_number

\* C17 witness: the third attempt succeeded after two failures
C17_Witness ==
    /\ wrap_depth = 1
    /\ retry_pc = "returned"
    /\ Len(invocations) = 3
    /\ slept = <<1, 2>>

\* C18: retry applied to an operation retry already wraps does not
\* multiply the budget: an always-failing operation is invoked at most 3
\* times per outer call.
C18_NestedBudget ==
    (wrap_depth = 2 /\ AllFailed) => Len(invocations) <= max_attempt_number

(***************************************************************************)
(* Schema decoder on its own: SafeJSONParser.safe_parse_json(text,         *)
(* "planner") applied to texts made in known ways from known plans.        *)
(***************************************************************************)
\* json.dumps({"plan": plan}, separators=(",", ":"))
compact(toks) == SelectSeq(toks, LAMBDA tk : tk.k # "ws")

\* how a text is made from a plan
ValidForms == {"dumps", "compact", "padded", "duplicate_key"}
MalformedForms == {"fenced", "trailing_text", "truncated", "trailing_comma"}
MissingKeyForms == {"array", "other_key"}
NonListForms == {"string_plan"}
OtherForms == {"extra_key", "number_items"}
Forms == ValidForms \cup MalformedForms \cup MissingKeyForms \cup NonListForms
            \cup OtherForms

TenTools ==
    <<"vector_search", "vector_search", "vector_search", "vector_search",
      "vector_search", "graph_search", "graph_search", "graph_search",
      "graph_search", "graph_search_async">>

DecodePlans == PlansUpTo(MaxPlanLen) \cup {TenTools, ElevenTools}

Render(form, pl) ==
    CASE form = "dumps" -> json_dumps_plan(pl)
      [] form = "compact" -> compact(json_dumps_plan(pl))
      [] form = "padded" -> <<WS>> \o json_dumps_plan(pl) \o <<WS, WS>>
      [] form = "duplicate_key" ->
            <<P("{"), S("plan"), P(":"), WS, P("["), P("]"), P(","), WS,
              S("plan"), P(":"), WS, P("[")>> \o DumpItems(pl, 1) \o <<P("]"), P("}")>>
      [] form = "fenced" ->
            <<Fence("open"), WS>> \o json_dumps_plan(pl) \o <<WS, Fence("close")>>
      [] form = "trailing_text" -> json_dumps_plan(pl) \o <<WS, W("Done")>>
      [] form = "truncated" ->
            SubSeq(json_dumps_plan(pl), 1, Len(json_dumps_plan(pl)) - 2)
      [] form = "trailing_comma" ->
            <<P("{"), S("plan"), P(":"), WS, P("[")>> \o DumpItems(pl, 1)
               \o <<P(","), P("]"), P("}")>>
      [] form = "array" -> <<P("[")>> \o DumpItems(pl, 1) \o <<P("]")>>
      [] form = "other_key" ->
            <<P("{"), S("steps"), P(":"), WS, P("[")>> \o DumpItems(pl, 1)
               \o <<P("]"), P("}")>>
      [] form = "string_plan" ->
            <<P("{"), S("plan"), P(":"), WS,
              S(IF pl = <<>> THEN "" ELSE pl[1]), P("}")>>
      [] form = "extra_key" ->
            <<P("{"), S("plan"), P(":"), WS, P("[")>> \o DumpItems(pl, 1)
               \o <<P("]"), P(","), WS, S("note"), P(":"), WS, W("null"), P("}")>>
      [] form = "number_items" ->
            <<P("{"), S("plan"), P(":"), WS, P("[")>>
               \o [i \in 1..(2 * Len(pl)) |->
                      IF i % 2 = 1 THEN N("1") ELSE P(",")]
               \o <<N("1"), P("]"), P("}")>>

\* safe_parse_json is about to be called on a text
InitDecode ==
    /\ EngineIdle
    /\ MetricsIdle
    /\ RetryIdle
    /\ BridgeIdle
    /\ GettersIdle
    /\ decode_input \in [form : Forms, plan : DecodePlans]
    /\ json_string = Render(decode_input.form, decode_input.plan)
    /\ decoded = [kind |-> "none"]

\* SafeJSONParser.safe_parse_json(json_string, "planner") returns or raises
safe_parse_json_call ==
    /\ decoded.kind = "none"
    /\ decoded' = [kind |-> "done", result |-> safe_parse_json(json_string)]
    /\ UNCHANGED <<decode_input, json_string>>
    /\ UNCHANGED non_decode_vars

NextDecode == safe_parse_json_call

SpecDecode == InitDecode /\ [][NextDecode]_vars

\* a plan of 1..10 identifiers of the enum, repeats allowed
WellFormedPlan(pl) ==
    /\ Len(pl) >= 1
    /\ Len(pl) <= 10
    /\ \A i \in 1..Len(pl) :
          pl[i] \in {"vector_search", "graph_search", "vector_search_async",
                     "graph_search_async"}

C20_RoundTrip ==
    (/\ decoded.kind = "done"
     /\ decode_input.form = "dumps"
     /\ WellFormedPlan(decode_input.plan)) =>
        decoded.result = Decoded(decode_input.plan)

\* C20 witness: a plan that repeats an identifier came back unchanged
C20_Witness ==
    /\ decoded.kind = "done"
    /\ decode_input = [form |-> "dumps",
                       plan |-> <<"graph_search", "vector_search", "graph_search">>]
    /\ decoded.result = Decoded(<<"graph_search", "vector_search", "graph_search">>)

\* C21: a completion that is a valid plan JSON wrapped in a fenced block
\* decodes to that plan (the decoder strips the fence before parsing).
C21_FencedDecodes ==
    (/\ decoded.kind = "done"
     /\ decode_input.form = "fenced"
     /\ WellFormedPlan(decode_input.plan)) =>
        decoded.result = Decoded(decode_input.plan)

(***************************************************************************)
(* The bridge of tool_executor_node, nodes.py:214-225: the node is called  *)
(* by a coroutine, so asyncio.get_running_loop() succeeds in the calling   *)
(* thread, which is the thread that runs the event loop.  The loop has a   *)
(* second task that is ready to make steps.                                *)
(***************************************************************************)
InitBridge ==
    /\ entry = "tool_executor_node"
    /\ pc = "executor"
    /\ query = "Capital of France?"
    /\ plan \in PlansUpTo(MaxPlanLen)
    /\ tool_output = <<>>
    /\ response = ""
    /\ iteration = 0
    /\ iteration0 = 0
    /\ ui \in BOOLEAN
    /\ tool_outcome \in ToolOutcomeAssignments
    /\ loop_running = TRUE
    /\ Locals
    /\ OthersIdle

\* TOOL_MAP[tool_name](state) returns a coroutine, nodes.py:212-214
returns_coroutine(tool_name) ==
    /\ tool_name \in DOMAIN TOOL_MAP
    /\ TOOL_MAP[tool_name] = "async"

\* one iteration of the loop for an item that needs no bridge: a plain
\* tool or an unknown identifier, nodes.py:207-213, 237-242
executor_plain_tool ==
    /\ pc = "executor"
    /\ phase = "loop"
    /\ idx <= Len(plan)
    /\ ~returns_coroutine(plan[idx])
    /\ tool_executor_node

\* nodes.py:209-224: tool_start, the call that returns the coroutine,
\* get_running_loop() succeeds, executor.submit(asyncio.run, output)
bridge_submit ==
    /\ pc = "executor"
    /\ phase = "loop"
    /\ idx <= Len(plan)
    /\ returns_coroutine(plan[idx])
    /\ worker = "idle"
    /\ events' = Emit(events, ui, Ev("tool_start", plan[idx]))
    /\ worker' = "running"
    /\ phase' = "bridge"
    /\ UNCHANGED <<pc, plan, tool_output, response, iteration, attempt, idx,
                   tool_outputs, calls, llm_calls, decoded_at>>
    /\ UNCHANGED trace_vars
    /\ UNCHANGED visits
    /\ UNCHANGED env_vars
    /\ UNCHANGED loop_ticks
    /\ UNCHANGED <<metrics_vars, retry_vars, decode_vars, getter_vars>>

\* the worker thread: asyncio.run(output) runs the coroutine to its end on
\* a loop of its own and the future gets its result or its exception
worker_run ==
    /\ worker = "running"
    /\ worker' = "finished"
    /\ UNCHANGED engine_vars
    /\ UNCHANGED loop_ticks
    /\ UNCHANGED <<metrics_vars, retry_vars, decode_vars, getter_vars>>

\* nodes.py:225-242: future.result() returns in the calling thread once the
\* worker has finished; the pool is shut down, the entry is appended and
\* tool_done is emitted
bridge_result ==
    /\ pc = "executor"
    /\ phase = "bridge"
    /\ worker = "finished"
    /\ LET tool_name == plan[idx] IN
         /\ events' = Emit(events, ui, Ev("tool_done", tool_name))
         /\ trace' = ToolTrace(trace, ui, tool_name)
         /\ calls' = Append(calls, tool_name)
         /\ tool_outputs' = sync_collect(tool_outputs, tool_name,
                                         tool_outcome[tool_name], loop_running)
    /\ worker' = "idle"
    /\ phase' = "loop"
    /\ idx' = idx + 1
    /\ UNCHANGED <<pc, plan, tool_output, response, iteration, attempt,
                   llm_calls, decoded_at, awaiting>>
    /\ UNCHANGED visits
    /\ UNCHANGED env_vars
    /\ UNCHANGED loop_ticks
    /\ UNCHANGED <<metrics_vars, retry_vars, decode_vars, getter_vars>>

\* the event loop runs a step of its other task.  The loop runs in the
\* thread that called tool_executor_node, and the node is a plain function
\* that never awaits: from its first statement to its return (the blocking
\* future.result() of nodes.py:225 included) that thread is not in the loop.
loop_other_work ==
    /\ loop_running
    /\ phase = "idle"
    /\ loop_ticks < MaxTicks
    /\ loop_ticks' = loop_ticks + 1
    /\ UNCHANGED worker
    /\ UNCHANGED engine_vars
    /\ UNCHANGED <<metrics_vars, retry_vars, decode_vars, getter_vars>>

NextBridge ==
    \/ executor_enter
    \/ executor_plain_tool
    \/ bridge_submit
    \/ worker_run
    \/ bridge_result
    \/ executor_return
    \/ loop_other_work

SpecBridge == InitBridge /\ [][NextBridge]_vars

\* C22: while the isolated worker runs an asynchronous tool for the
\* synchronous dispatcher, other work on the caller's event loop is not
\* blocked: the loop's other task can make a step.
C22_BridgeDoesNotBlockLoop ==
    (/\ worker = "running"
     /\ loop_ticks < MaxTicks) => ENABLED loop_other_work

\* C23: when the model call of SYNTHESIZE fails, the response is non-empty
\* and built from the collected tool_output, not the error text alone
\* (stated for runs in which some tool produced an output).
C23_PartialContextOnFailure ==
    (/\ Returned
     /\ llm_calls.synth_errors = 1
     /\ ~NoToolSucceeded) =>
        (response # "" /\ ~IsErrorMarker(response))

(***************************************************************************)
(* timing() called again and again on one timer, metrics.py:43-50.  The    *)
(* locked block makes the calls of different threads follow one another,   *)
(* so one thread making all the calls gives every sequence of calls.       *)
(***************************************************************************)
InitTiming ==
    /\ EngineIdle
    /\ _metrics = reset_metrics
    /\ _metrics_lock = 0
    /\ threads = [t \in ThreadIds |->
                     IF t = 1
                     THEN [op |-> "timing", pc |-> "call",
                           left |-> MaxTimingCalls, tmp |-> 0]
                     ELSE [op |-> "timing", pc |-> "done",
                           left |-> 0, tmp |-> 0]]
    /\ reader = reader_idle
    /\ completed = {}
    /\ RetryIdle
    /\ DecodeIdle
    /\ BridgeIdle
    /\ GettersIdle

NextTiming ==
    \/ \E t \in ThreadIds : timing_append(t)
    \/ \E t \in ThreadIds : timing_truncate(t)

SpecTiming == InitTiming /\ [][NextTiming]_vars

\* timing() calls that returned
timing_calls_returned == MaxTimingCalls - threads[1].left

\* the value recorded by the k-th timing() call
timing_value(k) == MaxTimingCalls - k + 1

\* C24: after any sequence of timing(name, value) calls the timer holds at
\* most 1000 values, and they are the most recently recorded ones in their
\* order of arrival.
C24_TimerKeepsLastThousand ==
    lock_free(_metrics_lock) =>
        LET n == timing_calls_returned
            kept == _metrics.timers IN
        /\ Len(kept) = Min2(n, timer_cap)
        /\ \A i \in 1..Len(kept) : kept[i] = timing_value(n - Len(kept) + i)

\* C24 witness: more than 1000 calls returned and the timer holds 1000
\* values, the oldest ones dropped
C24_Witness ==
    /\ lock_free(_metrics_lock)
    /\ timing_calls_returned > timer_cap
    /\ Len(_metrics.timers) = timer_cap
    /\ _metrics.timers[1] = timing_value(timing_calls_returned - timer_cap + 1)

\* positions of the trace that hold event ev
TracePositions(ev) == {i \in 1..Len(trace) : trace[i] = ev}

\* C25: SYNTHESIZE calls the model client exactly once with no retry,
\* emits synth_start before that call and the completion event after it,
\* also when the call fails.
C25_SynthesizeOneCallBetweenEvents ==
    LET starts == TracePositions(Ev("synth_start", ""))
        gens   == TracePositions(Ev("generate", "synthesizer"))
        dones  == TracePositions(Ev("Answer ready", "")) IN
    /\ llm_calls.synth = visits["synthesizer"]
    /\ Cardinality(gens) = visits["synthesizer"]
    /\ (visits["synthesizer"] = 1 /\ ui) =>
          /\ Cardinality(starts) = 1
          /\ Cardinality(dones) = 1
          /\ \A i \in starts, j \in gens, k \in dones : i < j /\ j < k
          /\ Count(events, Ev("synth_start", "")) = 1
          /\ Count(events, Ev("Answer ready", "")) = 1

\* C25 witness: the model call of SYNTHESIZE raised and the completion
\* event was emitted after it
C25_Witness ==
    /\ Returned
    /\ ui
    /\ visits["synthesizer"] = 1
    /\ llm_calls.synth_errors = 1
    /\ trace[Len(trace)] = Ev("Answer ready", "")

\* C26: the graph has no edge from the validator back to the planner; in
\* one engine run planner, executor and validator each execute exactly
\* once and the synthesizer at most once.
C26_EachNodeOnce ==
    /\ \A n \in DOMAIN visits : visits[n] <= 1
    /\ pc = "planner" => visits["validator"] = 0
    /\ Returned =>
          /\ visits["planner"] = 1
          /\ visits["executor"] = 1
          /\ visits["validator"] = 1

\* C26 witness: a run that went through all four nodes returned
C26_Witness ==
    /\ Returned
    /\ visits = [n \in {"planner", "executor", "validator", "synthesizer"} |-> 1]
    /\ Len(plan) >= 2

RegisteredPart(pl) == SelectSeq(pl, LAMBDA t : t \in DOMAIN TOOL_MAP)

\* C28: a plan item that is not a key of TOOL_MAP is skipped silently by
\* both executors: no tool_start or tool_done is emitted for it, nothing is
\* called and no output entry is recorded, so tool_output is shorter than
\* the plan.
C28_UnknownIdSkippedSilently ==
    /\ \A i \in 1..Len(events) : events[i].id \in DOMAIN TOOL_MAP
    /\ \A i \in 1..Len(trace) : trace[i].id \in DOMAIN TOOL_MAP
    /\ \A i \in 1..Len(calls) : calls[i] \in DOMAIN TOOL_MAP
    /\ \A i \in 1..Len(tool_outputs) : tool_outputs[i].id \in DOMAIN TOOL_MAP
    /\ Returned =>
          /\ Len(tool_output) = Len(RegisteredPart(plan))
          /\ \A i \in 1..Len(tool_output) : tool_output[i].id \in DOMAIN TOOL_MAP
          /\ ~AllRegistered(plan) => Len(tool_output) < Len(plan)

\* C28 witness: a plan with an unknown identifier between two registered
\* tools was dispatched with an observer attached and two entries came back
C28_Witness ==
    /\ Returned
    /\ ui
    /\ Len(plan) = 3
    /\ plan[2] = UnknownTool
    /\ plan[1] \in DOMAIN TOOL_MAP
    /\ plan[3] \in DOMAIN TOOL_MAP
    /\ Len(tool_output) = 2
    /\ Len(events) = 4

(***************************************************************************)
(* The lazy getters, nodes.py:25-46, called by threads: the nodes of       *)
(* concurrent requests run in worker threads, and the bridge of            *)
(* tool_executor_node runs a tool, and the getter it calls, in a pool      *)
(* thread.  The functions take no lock, so the test, the construction, the *)
(* assignment and the return are separate steps of a thread.               *)
(***************************************************************************)
InitGetters ==
    /\ EngineIdle
    /\ MetricsIdle
    /\ RetryIdle
    /\ DecodeIdle
    /\ BridgeIdle
    /\ clients = [g \in Getters |-> 0]
    /\ constructed = [g \in Getters |-> 0]
    /\ callers \in [ThreadIds -> [getter : Getters, pc : {"call"},
                                  made : {0}, result : {0}]]

\* `if X is None:`, nodes.py:28, 36, 44
getter_test(t) ==
    /\ callers[t].pc = "call"
    /\ callers' = [callers EXCEPT ![t].pc =
                      IF clients[callers[t].getter] = 0
                      THEN "construct" ELSE "return"]
    /\ UNCHANGED <<clients, constructed>>
    /\ UNCHANGED non_getter_vars

\* the constructor call on the right of the assignment, nodes.py:29, 37, 45;
\* instances are numbered in the order they are made
getter_construct(t) ==
    /\ callers[t].pc = "construct"
    /\ constructed' = [constructed EXCEPT ![callers[t].getter] = @ + 1]
    /\ callers' = [callers EXCEPT ![t].pc = "assign",
                                  ![t].made = constructed'[callers[t].getter]]
    /\ UNCHANGED clients
    /\ UNCHANGED non_getter_vars

\* the global is bound to the new instance, nodes.py:29, 37, 45
getter_assign(t) ==
    /\ callers[t].pc = "assign"
    /\ clients' = [clients EXCEPT ![callers[t].getter] = callers[t].made]
    /\ callers' = [callers EXCEPT ![t].pc = "return"]
    /\ UNCHANGED constructed
    /\ UNCHANGED non_getter_vars

\* `return X`: the global is read again, nodes.py:30, 38, 46
getter_return(t) ==
    /\ callers[t].pc = "return"
    /\ callers' = [callers EXCEPT ![t].pc = "done",
                                  ![t].result = clients[callers[t].getter]]
    /\ UNCHANGED <<clients, constructed>>
    /\ UNCHANGED non_getter_vars

NextGetters ==
    \/ \E t \in ThreadIds : getter_test(t)
    \/ \E t \in ThreadIds : getter_construct(t)
    \/ \E t \in ThreadIds : getter_assign(t)
    \/ \E t \in ThreadIds : getter_return(t)

SpecGetters == InitGetters /\ [][NextGetters]_vars

\* C29: each lazy getter constructs its client at most once and returns
\* the same instance to every caller, also when the first calls of several
\* requests are concurrent.
C29_ConstructedOnceSameInstance ==
    /\ \A g \in Getters : constructed[g] <= 1
    /\ \A t1, t2 \in ThreadIds :
          (/\ callers[t1].pc = "done"
           /\ callers[t2].pc = "done"
           /\ callers[t1].getter = callers[t2].getter) =>
              callers[t1].result = callers[t2].result

\* C30: 'planning_complete' is emitted exactly once in a run whose PLAN
\* attempt decodes, before any 'tool_start', and never in a run where the
\* planner falls back to the default plan (observer attached).
C30_PlanningCompleteOnDecode ==
    LET n == Count([i \in 1..Len(events) |-> events[i].e], "planning_complete") IN
    /\ pc = "planner" => n = 0
    /\ (pc # "planner" /\ decoded_at = 0) => n = 0
    /\ (pc # "planner" /\ decoded_at > 0 /\ ui) =>
          /\ n = 1
          /\ events[1] = Ev("planning_complete", "")
          /\ \A i \in 1..Len(events) :
                events[i].e = "tool_start" => i > 1

\* C30 witness: the second completion decoded, planning_complete was the
\* first event and a tool was started after it
C30_Witness ==
    /\ Returned
    /\ ui
    /\ decoded_at = 2
    /\ events[1] = Ev("planning_complete", "")
    /\ Len(events) >= 3
    /\ events[2].e = "tool_start"

====
